---- MODULE Spec2Model ----
(***************************************************************************)
(* cardify: markdown chunk derivation (chunking.py), the SQLite record     *)
(* store (database.py), PDF insertion (pdf_insert.py) and the batch entry  *)
(* point (cli.py).                                                         *)
(*                                                                         *)
(* Spec        the chunk derivation of process_markdown_to_chunks on every  *)
(*             bounded output of the splitter.                              *)
(* SpecIngest  calls of process_markdown_to_chunks for arbitrary pdf ids.   *)
(* SpecApi     process_markdown_to_chunks and direct add_text_chunk calls.  *)
(* SpecStore   SpecApi's calls and direct add_pdf calls.                    *)
(* SpecMain    main(): the batch loop over the input documents.             *)
(* SpecStoreThenMain  main() on a database written by add_text_chunk.       *)
(***************************************************************************)
EXTENDS Integers, Sequences, FiniteSets, TLC

VARIABLES
    chunks,         \* chunking.py:22  the Documents split_text returned
    last,           \* the last store-level call: its arguments and outcome
    pdfs,           \* database.py:67  table pdfs, in rowid order
    text_chunks,    \* database.py:87  table text_chunks, in rowid order
    db_exists,      \* database.py:26  whether the database file exists
    pc,             \* cli.py          position of main()
    args,           \* cli.py:95       the parsed command line
    pos,            \* cli.py:109      how many entries of pdf_files the loop has taken
    success_count,  \* cli.py:106
    exit_code,      \* cli.py:151-153, database.py:42  status of sys.exit
    attempt         \* cli.py:109-143  what the last loop iteration did

vars == <<chunks, last, pdfs, text_chunks, db_exists, pc, args, pos,
          success_count, exit_code, attempt>>

storeVars == <<pdfs, text_chunks, db_exists>>
mainVars == <<pc, args, pos, success_count, exit_code, attempt>>

----------------------------------------------------------------------------
(* Bounds *)

MaxPage == 1
MaxTokens == 3
MaxSegs == 2
MaxPdfId == 2
MaxDirect == 1
MaxFiles == 2
MaxBytes == 2

Pages == 0..MaxPage
PdfIds == 1..MaxPdfId

----------------------------------------------------------------------------
(* Nullable values: SQL NULL / Python None / a polars null *)

Null == <<>>
Some(v) == <<v>>
IsNull(x) == x = Null
Val(x) == x[1]

----------------------------------------------------------------------------
(* The text of a segment: a sequence of pieces, each either a page marker  *)
(* "{n}--" (n digits, two or more dashes) or other text.                   *)

Text == [marker |-> FALSE, num |-> 0]
Marker(n) == [marker |-> TRUE, num |-> n]
Tokens == {Text} \cup {Marker(n) : n \in Pages}

\* metadata dicts of the splitter's Documents, by the keys they hold
NoMeta == [k \in {} |-> ""]
CodeMeta == [k \in {"Code"} |-> "py"]
HeaderMeta == [k \in {"Header 1"} |-> "A"]
Metas == {NoMeta, CodeMeta, HeaderMeta}

Segment(content, meta) == [page_content |-> content, metadata |-> meta, type |-> "Document"]

RECURSIVE SumLen(_)
SumLen(segs) ==
    IF segs = <<>> THEN 0 ELSE Len(Head(segs).page_content) + SumLen(Tail(segs))

----------------------------------------------------------------------------
(* chunking.py:24-85  the lazy frame *)

\* chunking.py:25-41  a column of the frame: the metadata key, null where a row lacks it
Column(seg, key) ==
    IF key \in DOMAIN seg.metadata THEN Some(seg.metadata[key]) ELSE Null

\* chunking.py:44-46  str.extract_all(r"\{\d+\}--+")
page_markers(seg) == SelectSeq(seg.page_content, LAMBDA t : t.marker)

\* chunking.py:52-53  str.extract(r"\{(\d+)\}").cast(Int64) of a list element (null stays null)
MarkerNumber(m) == IF IsNull(m) THEN Null ELSE Some(Val(m).num)

\* chunking.py:51  list.first()
ListFirst(l) == IF l = <<>> THEN Null ELSE Some(l[1])

\* chunking.py:56  list.last()
ListLast(l) == IF l = <<>> THEN Null ELSE Some(l[Len(l)])

\* chunking.py:49-54
provisional_start(seg) == MarkerNumber(ListFirst(page_markers(seg)))

\* an end page read from the first marker of the segment
provisional_end_first(seg) == MarkerNumber(ListFirst(page_markers(seg)))

\* chunking.py:55-59
provisional_end(seg) == MarkerNumber(ListLast(page_markers(seg)))

\* a fill that carries the start page forward instead of the end page
RECURSIVE prev_end_from_start(_, _)
prev_end_from_start(segs, n) ==
    IF n = 0 THEN Null
    ELSE IF ~IsNull(provisional_start(segs[n])) THEN provisional_start(segs[n])
    ELSE prev_end_from_start(segs, n - 1)

\* a fill that falls back to page 0 where nothing precedes
RECURSIVE prev_end_or_zero(_, _)
prev_end_or_zero(segs, n) ==
    IF n = 0 THEN Some(0)
    ELSE IF ~IsNull(provisional_end(segs[n])) THEN provisional_end(segs[n])
    ELSE prev_end_or_zero(segs, n - 1)

\* chunking.py:63-65  fill_null(strategy="forward") of end_page, at row n (1-based)
RECURSIVE prev_end(_, _)
prev_end(segs, n) ==
    IF n = 0 THEN Null
    ELSE IF ~IsNull(provisional_end(segs[n])) THEN provisional_end(segs[n])
    ELSE prev_end(segs, n - 1)

\* chunking.py:69-72
start_page(segs, n) ==
    IF IsNull(provisional_start(segs[n])) THEN prev_end(segs, n)
    ELSE provisional_start(segs[n])

\* chunking.py:73-76
end_page(segs, n) ==
    IF IsNull(provisional_end(segs[n])) THEN prev_end(segs, n)
    ELSE provisional_end(segs[n])

\* chunking.py:80  pl.col("Code").is_not_null()
CodeFlag(seg) == ~IsNull(Column(seg, "Code"))

\* chunking.py:25-35, 43-46, 80  collect() raises ColumnNotFoundError when the frame
\* has no column page_content (no Document at all) or no column Code (no Document
\* carries the key)
CollectRaises(segs) ==
    \/ segs = <<>>
    \/ \A n \in 1..Len(segs) : "Code" \notin DOMAIN segs[n].metadata

\* chunking.py:24-85, 92  the rows collect() yields
Frame(segs) ==
    [n \in 1..Len(segs) |->
        [page_content |-> segs[n].page_content,
         type |-> segs[n].type,
         start_page |-> start_page(segs, n),
         end_page |-> end_page(segs, n),
         Code |-> CodeFlag(segs[n]),
         header_1 |-> Column(segs[n], "Header 1"),
         header_2 |-> Column(segs[n], "Header 2"),
         header_3 |-> Column(segs[n], "Header 3"),
         header_4 |-> Column(segs[n], "Header 4")]]

----------------------------------------------------------------------------
(* database.py  the record store *)

\* a table whose page columns are nullable
NotNullUnchecked(a) == FALSE

\* database.py:98-99  start_page INTEGER NOT NULL, end_page INTEGER NOT NULL
NotNullViolated(a) == IsNull(a.start_page) \/ IsNull(a.end_page)

\* a table without the uniqueness constraint
UniqueUnchecked(tc, a) == FALSE

\* database.py:102  UNIQUE(pdf_id, chunk_index)
UniqueViolated(tc, a) ==
    \E n \in 1..Len(tc) : tc[n].pdf_id = a.pdf_id /\ tc[n].chunk_index = a.chunk_index

\* database.py:229-258  the INSERT raises sqlite3.IntegrityError. The FOREIGN KEY of
\* line 101 is not among the checks: the connection never sets PRAGMA foreign_keys
\* (database.py:53-56), and SQLite leaves foreign keys unenforced by default.
InsertRaises(tc, a) == NotNullViolated(a) \/ UniqueViolated(tc, a)

\* database.py:229-264  the row add_text_chunk stores (id: AUTOINCREMENT, no row is ever deleted)
StoredChunk(tc, a) ==
    [id |-> Len(tc) + 1,
     pdf_id |-> a.pdf_id,
     chunk_index |-> a.chunk_index,
     page_content |-> a.page_content,
     type |-> a.chunk_type,
     header_1 |-> a.header_1,
     header_2 |-> a.header_2,
     header_3 |-> a.header_3,
     header_4 |-> a.header_4,
     code |-> IF a.is_code THEN 1 ELSE 0,
     start_page |-> a.start_page,
     end_page |-> a.end_page]

\* database.py:191-264  add_text_chunk: the table afterwards and what the call did
add_text_chunk(tc, a) ==
    IF InsertRaises(tc, a)
    THEN [text_chunks |-> tc, result |-> "IntegrityError"]
    ELSE [text_chunks |-> Append(tc, StoredChunk(tc, a)), result |-> "ok"]

\* database.py:312-322  SELECT * FROM text_chunks WHERE pdf_id = ? ORDER BY chunk_index ASC
RECURSIVE OrderByChunkIndex(_)
OrderByChunkIndex(rows) ==
    IF rows = {} THEN <<>>
    ELSE LET first == CHOOSE r \in rows :
                 \A q \in rows : \/ r.chunk_index < q.chunk_index
                                 \/ r.chunk_index = q.chunk_index /\ r.id <= q.id
         IN <<first>> \o OrderByChunkIndex(rows \ {first})

get_pdf_chunks(tc, pdf_id) ==
    OrderByChunkIndex({tc[n] : n \in {m \in 1..Len(tc) : tc[m].pdf_id = pdf_id}})

----------------------------------------------------------------------------
(* chunking.py:87-107  writing the frame *)

\* ordinals counted from 1
ChunkArgsOneBased(row, pdf_id, n) ==
    [pdf_id |-> pdf_id,
     page_content |-> row.page_content,
     chunk_type |-> row.type,
     start_page |-> row.start_page,
     end_page |-> row.end_page,
     chunk_index |-> n,
     is_code |-> row.Code,
     header_1 |-> row.header_1,
     header_2 |-> row.header_2,
     header_3 |-> row.header_3,
     header_4 |-> row.header_4]

\* chunking.py:93-105  the arguments of the n-th add_text_chunk call (n is 1-based)
ChunkArgs(row, pdf_id, n) ==
    [pdf_id |-> pdf_id,
     page_content |-> row.page_content,
     chunk_type |-> row.type,
     start_page |-> row.start_page,
     end_page |-> row.end_page,
     chunk_index |-> n - 1,
     is_code |-> row.Code,
     header_1 |-> row.header_1,
     header_2 |-> row.header_2,
     header_3 |-> row.header_3,
     header_4 |-> row.header_4]

\* a loop that swallows the exception of an insert and goes on with the next row
RECURSIVE InsertRowsSwallow(_, _, _, _)
InsertRowsSwallow(tc, rows, pdf_id, n) ==
    IF n > Len(rows)
    THEN [text_chunks |-> tc, result |-> "ok", failed_at |-> Null]
    ELSE InsertRowsSwallow(add_text_chunk(tc, ChunkArgs(rows[n], pdf_id, n)).text_chunks,
                           rows, pdf_id, n + 1)

\* chunking.py:92-105  the loop from row n on: the first insert that raises ends it
RECURSIVE InsertRows(_, _, _, _)
InsertRows(tc, rows, pdf_id, n) ==
    IF n > Len(rows)
    THEN [text_chunks |-> tc, result |-> "ok", failed_at |-> Null]
    ELSE LET r == add_text_chunk(tc, ChunkArgs(rows[n], pdf_id, n))
         IN IF r.result # "ok"
            THEN [text_chunks |-> tc, result |-> r.result, failed_at |-> Some(n - 1)]
            ELSE InsertRows(r.text_chunks, rows, pdf_id, n + 1)

\* chunking.py:9-107  process_markdown_to_chunks, given what split_text returned
process_markdown_to_chunks(tc, segs, pdf_id) ==
    IF CollectRaises(segs)
    THEN [text_chunks |-> tc, result |-> "ColumnNotFoundError", failed_at |-> Null,
          frame |-> <<>>]
    ELSE LET r == InsertRows(tc, Frame(segs), pdf_id, 1)
         IN [text_chunks |-> r.text_chunks, result |-> r.result,
             failed_at |-> r.failed_at, frame |-> Frame(segs)]

----------------------------------------------------------------------------
(* Initial state and the inputs *)

NoCall ==
    [op |-> "none", pdf_id |-> 0, result |-> "none", failed_at |-> Null,
     frame |-> <<>>, before |-> 0]

MainIdle ==
    /\ pc = "idle"
    /\ args = <<>>
    /\ pos = 0
    /\ success_count = 0
    /\ exit_code = Null
    /\ attempt = <<>>

EmptyStore ==
    /\ pdfs = <<>>
    /\ text_chunks = <<>>

Init ==
    /\ chunks = <<>>
    /\ last = NoCall
    /\ EmptyStore
    /\ db_exists = TRUE
    /\ MainIdle

\* Three outputs of split_text, one for each way process_markdown_to_chunks ends on an
\* empty document: two rows written; a null page at row 0; no Code column.
DocOk == <<Segment(<<Marker(0)>>, CodeMeta), Segment(<<Text>>, NoMeta)>>
DocNullPage == <<Segment(<<Text>>, CodeMeta), Segment(<<Marker(0)>>, NoMeta)>>
DocNoCode == <<Segment(<<Marker(0)>>, NoMeta)>>
SampleDocs == {DocOk, DocNullPage, DocNoCode}

\* chunking.py:21-22  split_text opens a further Document
SplitterNewSegment(t, m) ==
    /\ last.op = "none"
    /\ Len(chunks) < MaxSegs
    /\ SumLen(chunks) < MaxTokens
    /\ chunks' = Append(chunks, Segment(<<t>>, m))
    /\ UNCHANGED <<last, storeVars, mainVars>>

\* chunking.py:21-22  split_text adds text to the Document it is filling
SplitterExtendSegment(t) ==
    /\ last.op = "none"
    /\ chunks # <<>>
    /\ SumLen(chunks) < MaxTokens
    /\ LET n == Len(chunks)
       IN chunks' = [chunks EXCEPT ![n].page_content = Append(@, t)]
    /\ UNCHANGED <<last, storeVars, mainVars>>

\* chunking.py:24-92  the frame is collected (rows are handed to add_text_chunk one by one)
CollectFrame ==
    /\ last.op = "none"
    /\ last' = [NoCall EXCEPT !.op = "collect",
                              !.result = IF CollectRaises(chunks)
                                         THEN "ColumnNotFoundError" ELSE "ok",
                              !.frame = IF CollectRaises(chunks) THEN <<>> ELSE Frame(chunks)]
    /\ UNCHANGED <<chunks, storeVars, mainVars>>

\* chunking.py:9-107  a call process_markdown_to_chunks(markdown_content, pdf_id)
CallProcessMarkdownToChunks(pdf_id) ==
    /\ LET r == process_markdown_to_chunks(text_chunks, chunks, pdf_id)
       IN /\ text_chunks' = r.text_chunks
          /\ last' = [op |-> "process_markdown_to_chunks", pdf_id |-> pdf_id,
                      result |-> r.result, failed_at |-> r.failed_at,
                      frame |-> r.frame, before |-> Len(text_chunks)]
    /\ UNCHANGED <<chunks, pdfs, db_exists, mainVars>>

\* database.py:191-264  a direct call db.add_text_chunk(...)
CallAddTextChunk(a) ==
    /\ Len(text_chunks) < MaxDirect
    /\ LET r == add_text_chunk(text_chunks, a)
       IN /\ text_chunks' = r.text_chunks
          /\ last' = [NoCall EXCEPT !.op = "add_text_chunk", !.pdf_id = a.pdf_id,
                                    !.result = r.result, !.before = Len(text_chunks)]
    /\ UNCHANGED <<chunks, pdfs, db_exists, mainVars>>

\* the arguments of the direct calls: any pdf id, any index a frame of MaxSegs rows
\* uses, pages null or a page number (the least or the greatest)
DirectArgs ==
    {[pdf_id |-> p, page_content |-> <<Text>>, chunk_type |-> "Document",
      start_page |-> s, end_page |-> e, chunk_index |-> x, is_code |-> FALSE,
      header_1 |-> Null, header_2 |-> Null, header_3 |-> Null, header_4 |-> Null] :
        p \in PdfIds, x \in 0..(MaxSegs - 1),
        s \in {Null, Some(0), Some(MaxPage)}, e \in {Null, Some(0), Some(MaxPage)}}

----------------------------------------------------------------------------
(* Spec: the chunk derivation on every output of split_text with at most MaxSegs *)
(* Documents and MaxTokens pieces of text.                                       *)

Next ==
    \/ \E t \in Tokens, m \in Metas : SplitterNewSegment(t, m)
    \/ \E t \in Tokens : SplitterExtendSegment(t)
    \/ CollectFrame

Spec == Init /\ [][Next]_vars

(* SpecIngest: process_markdown_to_chunks is called, any number of times and for *)
(* any pdf id, on an output of split_text whose Documents hold one piece each.   *)

NextIngest ==
    \/ \E t \in Tokens, m \in Metas : SplitterNewSegment(t, m)
    \/ \E pdf_id \in PdfIds : CallProcessMarkdownToChunks(pdf_id)

SpecIngest == Init /\ [][NextIngest]_vars

(* SpecApi: calls of process_markdown_to_chunks and of add_text_chunk, in any order. *)

InitApi ==
    /\ chunks \in SampleDocs
    /\ last = NoCall
    /\ EmptyStore
    /\ db_exists = TRUE
    /\ MainIdle

NextApi ==
    \/ \E pdf_id \in PdfIds : CallProcessMarkdownToChunks(pdf_id)
    \/ \E a \in DirectArgs : CallAddTextChunk(a)

SpecApi == InitApi /\ [][NextApi]_vars

----------------------------------------------------------------------------
(* pdf_insert.py, cli.py  ingesting one document *)

\* pdf_insert.py:146-159  calculate_md5: the digest of the file's bytes (no collisions)
calculate_md5(bytes) == [md5 |-> bytes]

\* a table whose md5_hash column is not unique
Md5Unchecked(ps, hash) == FALSE

\* database.py:77  md5_hash TEXT UNIQUE NOT NULL
Md5UniqueViolated(ps, hash) == \E n \in 1..Len(ps) : ps[n].md5_hash = hash

\* database.py:138-189  add_pdf: the table afterwards, what the call did, the new id
add_pdf(ps, hash) ==
    IF Md5UniqueViolated(ps, hash)
    THEN [pdfs |-> ps, result |-> "IntegrityError", id |-> 0]
    ELSE [pdfs |-> Append(ps, [id |-> Len(ps) + 1, md5_hash |-> hash,
                                markdown_content |-> Null]),
          result |-> "ok", id |-> Len(ps) + 1]

\* database.py:138-189  a direct call db.add_pdf(file_path, metadata) for a file with
\* these bytes, metadata carrying its md5 hash
CallAddPdf(bytes) ==
    /\ Len(pdfs) < MaxPdfId
    /\ LET r == add_pdf(pdfs, calculate_md5(bytes))
       IN /\ pdfs' = r.pdfs
          /\ last' = [NoCall EXCEPT !.op = "add_pdf", !.pdf_id = r.id, !.result = r.result]
    /\ UNCHANGED <<chunks, text_chunks, db_exists, mainVars>>

(* SpecStore: calls of add_pdf, add_text_chunk and process_markdown_to_chunks, in any *)
(* order and for any pdf id.                                                         *)

NextStore ==
    \/ \E bytes \in 1..MaxBytes : CallAddPdf(bytes)
    \/ \E a \in DirectArgs : CallAddTextChunk(a)
    \/ \E pdf_id \in PdfIds : CallProcessMarkdownToChunks(pdf_id)

SpecStore == InitApi /\ [][NextStore]_vars

\* pdf_insert.py:162-212  insert_pdf on an existing database file: every failure
\* leaves as PDFInsertError
insert_pdf(ps, f) ==
    IF f.kind = "missing" THEN [pdfs |-> ps, result |-> "PDFInsertError", id |-> 0]
    ELSE IF f.kind # "pdf" THEN [pdfs |-> ps, result |-> "PDFInsertError", id |-> 0]
    ELSE LET r == add_pdf(ps, calculate_md5(f.bytes))
         IN IF r.result # "ok"
            THEN [pdfs |-> ps, result |-> "PDFInsertError", id |-> 0]
            ELSE r

\* database.py:335-346  update_markdown_content
update_markdown_content(ps, pdf_id, markdown_content) ==
    [n \in 1..Len(ps) |->
        IF ps[n].id = pdf_id THEN [ps[n] EXCEPT !.markdown_content = Some(markdown_content)]
        ELSE ps[n]]

\* database.py:26-42  PDFAnkiDB.__init__ on a missing file: the prompt is repeated until
\* the answer is y or n; n leaves through sys.exit(0); a closed stdin raises EOFError
OpenDatabase(exists, response) ==
    IF exists THEN "ok"
    ELSE IF response = "n" THEN "SystemExit"
    ELSE IF response = "eof" THEN "EOFError"
    ELSE "ok"

\* A path to a markdown file: how it was named, and the file there (null when no file
\* exists at the path, else what split_text makes of its text)
MdPath(name, file) == [name |-> name, file |-> file]

\* a search that knows the extension .md only
find_markdown_file_md_only(f) ==
    IF ~IsNull(f.md) THEN Some(MdPath(".md", f.md)) ELSE Null

\* cli.py:13-22  find_markdown_file: the .md companion first, then the .markdown one
find_markdown_file(f) ==
    IF ~IsNull(f.md) THEN Some(MdPath(".md", f.md))
    ELSE IF ~IsNull(f.markdown) THEN Some(MdPath(".markdown", f.markdown))
    ELSE Null

\* the three store connections of a process_files call (cli.py:50, pdf_insert.py:195,
\* chunking.py:88): each unopened, open or closed
NoConnections ==
    [process_files |-> "unopened", insert_pdf |-> "unopened",
     process_markdown_to_chunks |-> "unopened"]

\* a check of the markdown file that comes after the store was opened
RaiseFileNotFoundAfterOpen(ps, tc, exists) ==
    [pdfs |-> ps, text_chunks |-> tc, db_exists |-> TRUE, pdf_id |-> 0,
     outcome |-> "FileNotFoundError", markdown_path |-> Null, failed_at |-> Null,
     connections |-> [NoConnections EXCEPT !.process_files = "open"]]

\* cli.py:44-49  raise FileNotFoundError: nothing was opened, nothing was written
RaiseFileNotFound(ps, tc, exists) ==
    [pdfs |-> ps, text_chunks |-> tc, db_exists |-> exists, pdf_id |-> 0,
     outcome |-> "FileNotFoundError", markdown_path |-> Null, failed_at |-> Null,
     connections |-> NoConnections]

\* pdf_insert.py:193-205  whether insert_pdf gets as far as opening its connection (it
\* closes it in the finally of line 203)
InsertPdfConnects(f) == f.kind = "pdf"

\* cli.py:50-66  process_files from the opening of the store on, with the markdown file
\* at path
IngestWithMarkdown(ps, tc, exists, f, path, response) ==
    LET unchanged == [pdfs |-> ps, text_chunks |-> tc, db_exists |-> exists, pdf_id |-> 0,
                      markdown_path |-> Some(path.name), failed_at |-> Null]
    IN IF OpenDatabase(exists, response) # "ok"
       THEN unchanged @@ [outcome |-> OpenDatabase(exists, response),
                          connections |-> NoConnections]
       ELSE LET ins == insert_pdf(ps, f)
            IN IF ins.result # "ok"
               THEN [unchanged EXCEPT !.db_exists = TRUE] @@
                    [outcome |-> ins.result,
                     connections |->
                        [NoConnections EXCEPT
                            !.process_files = "open",
                            !.insert_pdf = IF InsertPdfConnects(f) THEN "closed"
                                           ELSE "unopened"]]
               ELSE LET ps2 == update_markdown_content(ins.pdfs, ins.id, Val(path.file))
                        r == process_markdown_to_chunks(tc, Val(path.file), ins.id)
                    IN [pdfs |-> ps2, text_chunks |-> r.text_chunks, db_exists |-> TRUE,
                        pdf_id |-> ins.id, outcome |-> r.result,
                        markdown_path |-> Some(path.name), failed_at |-> r.failed_at,
                        connections |-> [process_files |-> "closed", insert_pdf |-> "closed",
                                         process_markdown_to_chunks |-> "closed"]]

\* cli.py:25-66  process_files(pdf_path, markdown_path, db_path): markdown_path is null
\* (None) or a path
process_files(ps, tc, exists, f, markdown_path, response) ==
    IF IsNull(markdown_path)
    THEN IF IsNull(find_markdown_file(f))
         THEN RaiseFileNotFound(ps, tc, exists)
         ELSE IngestWithMarkdown(ps, tc, exists, f, Val(find_markdown_file(f)), response)
    ELSE IF IsNull(Val(markdown_path).file)
         THEN RaiseFileNotFound(ps, tc, exists)
         ELSE IngestWithMarkdown(ps, tc, exists, f, Val(markdown_path), response)

\* cli.py:119-143  whether the loop body adds the document to success_count
MainCounts(outcome, optional_markdown) ==
    \/ outcome = "ok"
    \/ outcome = "FileNotFoundError" /\ optional_markdown

----------------------------------------------------------------------------
(* cli.py:69-153  main *)

Responses == {"y", "n", "eof"}

\* the documents on the command line: a path that does not exist, a file without the
\* .pdf suffix, a PDF; the bytes of the file; its companions with the suffixes .md and
\* .markdown, where they exist
Files ==
    {[kind |-> "missing", bytes |-> 1, md |-> Null, markdown |-> Null]}
    \cup {[kind |-> k, bytes |-> b, md |-> md, markdown |-> markdown] :
            k \in {"not_pdf", "pdf"}, b \in 1..MaxBytes,
            md \in {Null} \cup {Some(d) : d \in SampleDocs},
            markdown \in {Null, Some(DocOk)}}

\* cli.py:76-91  the command lines: how many PDFs, whether --markdown is given and the
\* file at that path (null: no file there), whether --optional-markdown is given
CommandLines ==
    {a \in [pdf_files : 1..MaxFiles, markdown : BOOLEAN,
            markdown_file : {Null, Some(DocOk)}, optional_markdown : BOOLEAN] :
        ~a.markdown => IsNull(a.markdown_file)}

\* cli.py:122  markdown_path=args.markdown
ArgsMarkdownPath(a) ==
    IF a.markdown THEN Some(MdPath("--markdown", a.markdown_file)) ELSE Null

NoAttempt ==
    [file |-> [kind |-> "none", bytes |-> 0, md |-> Null, markdown |-> Null],
     outcome |-> "none", pdf_id |-> 0, counted |-> FALSE, pdfs_before |-> 0,
     chunks_before |-> 0, db_before |-> TRUE, response |-> "none",
     markdown_path |-> Null, failed_at |-> Null, connections |-> NoConnections]

InitMain ==
    /\ chunks = <<>>
    /\ last = NoCall
    /\ EmptyStore
    /\ db_exists \in BOOLEAN
    /\ pc = "start"
    /\ args \in CommandLines
    /\ pos = 0
    /\ success_count = 0
    /\ exit_code = Null
    /\ attempt = NoAttempt

\* cli.py:95-107  the arguments are parsed; --markdown with several PDFs ends the run
MainStart ==
    /\ pc = "start"
    /\ IF args.markdown /\ args.pdf_files > 1
       THEN pc' = "exited" /\ exit_code' = Some(1)
       ELSE pc' = "loop" /\ exit_code' = exit_code
    /\ UNCHANGED <<chunks, last, storeVars, args, pos, success_count, attempt>>

\* cli.py:109-143  one pass of the loop body, on the document f
MainIteration(f, response) ==
    /\ pc = "loop"
    /\ pos < args.pdf_files
    /\ pos' = pos + 1
    /\ IF f.kind = "missing"
       THEN /\ attempt' = [NoAttempt EXCEPT !.file = f, !.outcome = "missing",
                                            !.pdfs_before = Len(pdfs),
                                            !.chunks_before = Len(text_chunks),
                                            !.db_before = db_exists]
            /\ UNCHANGED <<storeVars, pc, success_count, exit_code>>
       ELSE LET r == process_files(pdfs, text_chunks, db_exists, f,
                                   ArgsMarkdownPath(args), response)
                counted == MainCounts(r.outcome, args.optional_markdown)
            IN /\ pdfs' = r.pdfs
               /\ text_chunks' = r.text_chunks
               /\ db_exists' = r.db_exists
               /\ attempt' = [file |-> f, outcome |-> r.outcome, pdf_id |-> r.pdf_id,
                              counted |-> counted, pdfs_before |-> Len(pdfs),
                              chunks_before |-> Len(text_chunks),
                              db_before |-> db_exists, response |-> response,
                              markdown_path |-> r.markdown_path,
                              failed_at |-> r.failed_at,
                              connections |-> r.connections]
               /\ success_count' = IF counted THEN success_count + 1 ELSE success_count
               /\ IF r.outcome = "SystemExit"
                  THEN pc' = "exited" /\ exit_code' = Some(0)
                  ELSE pc' = pc /\ exit_code' = exit_code
    /\ UNCHANGED <<chunks, last, args>>

\* cli.py:145-153  the summary and the exit code
MainFinish ==
    /\ pc = "loop"
    /\ pos = args.pdf_files
    /\ pc' = "exited"
    /\ exit_code' = IF success_count < args.pdf_files THEN Some(1) ELSE Some(0)
    /\ UNCHANGED <<chunks, last, storeVars, args, pos, success_count, attempt>>

\* the answer to the prompt matters only where the prompt appears: process_files is
\* called, finds its markdown file, and the database file does not exist
Prompted(f) ==
    /\ f.kind # "missing"
    /\ ~db_exists
    /\ IF args.markdown THEN ~IsNull(args.markdown_file)
       ELSE ~IsNull(find_markdown_file(f))

NextMain ==
    \/ MainStart
    \/ \E f \in Files :
        \E response \in (IF Prompted(f) THEN Responses ELSE {"none"}) :
            MainIteration(f, response)
    \/ MainFinish

SpecMain == InitMain /\ [][NextMain]_vars

(* SpecStoreThenMain: main runs on a database file that a user of the store has *)
(* written to with add_text_chunk before.                                       *)

NextStoreThenMain ==
    \/ \E a \in DirectArgs : pc = "start" /\ db_exists /\ CallAddTextChunk(a)
    \/ NextMain

SpecStoreThenMain == InitMain /\ [][NextStoreThenMain]_vars

----------------------------------------------------------------------------
(* Vocabulary of the claims, stated on the text of the segments *)

HasMarker(seg) == \E k \in 1..Len(seg.page_content) : seg.page_content[k].marker

MarkerPositions(seg) == {k \in 1..Len(seg.page_content) : seg.page_content[k].marker}

Greatest(S) == CHOOSE x \in S : \A y \in S : y <= x

FirstMarkerValue(seg) ==
    seg.page_content[CHOOSE k \in MarkerPositions(seg) : \A j \in MarkerPositions(seg) : k <= j].num

LastMarkerValue(seg) == seg.page_content[Greatest(MarkerPositions(seg))].num

MarkedBefore(segs, n) == {m \in 1..(n - 1) : HasMarker(segs[m])}

Collected == last.op = "collect" /\ last.result = "ok"

ChunksOf(tc, pdf_id) == {n \in 1..Len(tc) : tc[n].pdf_id = pdf_id}

----------------------------------------------------------------------------
(* Claims on the chunk derivation (Spec) *)

C2_NonNullIffMarkerSoFar ==
    Collected =>
        \A n \in 1..Len(chunks) :
            LET seen == \E m \in 1..n : HasMarker(chunks[m])
            IN /\ seen => ~IsNull(last.frame[n].start_page) /\ ~IsNull(last.frame[n].end_page)
               /\ ~seen => IsNull(last.frame[n].start_page) /\ IsNull(last.frame[n].end_page)

\* a frame with a row left null (no marker so far) and a later row that has pages
C2_Witness ==
    /\ Collected
    /\ \E n \in 1..Len(chunks), m \in 1..Len(chunks) :
        /\ n < m
        /\ IsNull(last.frame[n].start_page)
        /\ ~IsNull(last.frame[m].start_page)

\* C3: every collected row with non-null pages has start page <= end page, whatever the
\* order of the marker values inside a segment.
C3_StartLeEnd ==
    Collected =>
        \A n \in 1..Len(chunks) :
            (~IsNull(last.frame[n].start_page) /\ ~IsNull(last.frame[n].end_page)) =>
                Val(last.frame[n].start_page) <= Val(last.frame[n].end_page)

\* C12: a segment that holds page markers gets the number of its first marker as start
\* page and the number of its last marker as end page; with a single marker, or with
\* equal first and last markers, start page and end page are equal.
C12_FirstAndLastMarker ==
    Collected =>
        \A n \in 1..Len(chunks) :
            HasMarker(chunks[n]) =>
                /\ last.frame[n].start_page = Some(FirstMarkerValue(chunks[n]))
                /\ last.frame[n].end_page = Some(LastMarkerValue(chunks[n]))
                /\ (\/ Cardinality(MarkerPositions(chunks[n])) = 1
                    \/ FirstMarkerValue(chunks[n]) = LastMarkerValue(chunks[n])) =>
                        last.frame[n].start_page = last.frame[n].end_page

\* a segment with two markers of different numbers and other text between them
C12_Witness ==
    /\ Collected
    /\ \E n \in 1..Len(chunks) :
        /\ Cardinality(MarkerPositions(chunks[n])) = 2
        /\ FirstMarkerValue(chunks[n]) # LastMarkerValue(chunks[n])
        /\ \E k \in 1..Len(chunks[n].page_content) :
            /\ ~chunks[n].page_content[k].marker
            /\ \E i \in MarkerPositions(chunks[n]) : i < k
            /\ \E j \in MarkerPositions(chunks[n]) : k < j

\* C14: on every output of the splitter, also one without a code block, every segment
\* is handed to add_text_chunk, with is_code TRUE exactly when the segment is a fenced
\* code block (its metadata holds the key Code), a boolean.
C14_CodeFlagOnEveryInput ==
    last.op = "collect" =>
        /\ Len(last.frame) = Len(chunks)
        /\ \A n \in 1..Len(chunks) :
            /\ last.frame[n].Code \in BOOLEAN
            /\ last.frame[n].Code = ("Code" \in DOMAIN chunks[n].metadata)

----------------------------------------------------------------------------
(* Claims on the store (SpecIngest, SpecApi, SpecStore) *)

\* C16: every row of text_chunks names, as pdf_id, the id of a row of pdfs.
C16_ChunkBelongsToDocument ==
    \A n \in 1..Len(text_chunks) :
        \E m \in 1..Len(pdfs) : pdfs[m].id = text_chunks[n].pdf_id


C5_OrdinalsContiguous ==
    \A p \in PdfIds :
        LET rows == ChunksOf(text_chunks, p)
        IN /\ {text_chunks[n].chunk_index : n \in rows} = 0..(Cardinality(rows) - 1)
           /\ \A n \in rows, m \in rows :
                text_chunks[n].chunk_index = text_chunks[m].chunk_index => n = m

\* a repeated call for a document that already holds two chunks was rejected
C5_Witness ==
    /\ last.op = "process_markdown_to_chunks"
    /\ last.result = "IntegrityError"
    /\ Cardinality(ChunksOf(text_chunks, last.pdf_id)) >= 2
    /\ \E p \in PdfIds : p # last.pdf_id /\ ChunksOf(text_chunks, p) # {}

\* C6: after process_markdown_to_chunks completed without error for a document that had
\* no chunks, get_pdf_chunks returns the emitted rows: as many, in emission order, row n
\* with chunk_index n-1 (n counted from 1) and the emitted content, kind, headers, code
\* flag and pages.
C6_StoredEqualsEmitted ==
    (/\ last.op = "process_markdown_to_chunks"
     /\ last.result = "ok"
     /\ \A n \in 1..last.before : text_chunks[n].pdf_id # last.pdf_id) =>
        LET got == get_pdf_chunks(text_chunks, last.pdf_id)
        IN /\ Len(got) = Len(last.frame)
           /\ \A n \in 1..Len(got) :
                /\ got[n].chunk_index = n - 1
                /\ got[n].page_content = last.frame[n].page_content
                /\ got[n].type = last.frame[n].type
                /\ got[n].header_1 = last.frame[n].header_1
                /\ got[n].header_2 = last.frame[n].header_2
                /\ got[n].header_3 = last.frame[n].header_3
                /\ got[n].header_4 = last.frame[n].header_4
                /\ (got[n].code = 1) = last.frame[n].Code
                /\ got[n].code \in {0, 1}
                /\ got[n].start_page = last.frame[n].start_page
                /\ got[n].end_page = last.frame[n].end_page

\* a successful call that wrote two rows of different content and code flag, while
\* another document already held chunks
C6_Witness ==
    /\ last.op = "process_markdown_to_chunks"
    /\ last.result = "ok"
    /\ last.before > 0
    /\ \A n \in 1..last.before : text_chunks[n].pdf_id # last.pdf_id
    /\ Len(last.frame) >= 2
    /\ last.frame[1].page_content # last.frame[2].page_content
    /\ last.frame[1].Code # last.frame[2].Code
    /\ \E n \in 1..Len(last.frame) : ~IsNull(last.frame[n].header_1)

\* the rows of the last call's frame whose insert violates a constraint of text_chunks:
\* a null page, or an ordinal the document already held when the call began
ViolatingRows ==
    {n \in 1..Len(last.frame) :
        \/ IsNull(last.frame[n].start_page)
        \/ IsNull(last.frame[n].end_page)
        \/ \E m \in 1..last.before :
            /\ text_chunks[m].pdf_id = last.pdf_id
            /\ text_chunks[m].chunk_index = n - 1}

Least(S) == CHOOSE x \in S : \A y \in S : x <= y

\* C7: integrity failures are surfaced: when an insert of process_markdown_to_chunks
\* violates the uniqueness or a not-null page constraint, the call raises IntegrityError
\* at that row, the table holds the rows written before it and no later row of the
\* batch, and main's handlers do not count the document, with or without
\* --optional-markdown.
C7_IntegrityFailureSurfaced ==
    (last.op = "process_markdown_to_chunks" /\ ViolatingRows # {}) =>
        LET k == Least(ViolatingRows)
        IN /\ last.result = "IntegrityError"
           /\ last.failed_at = Some(k - 1)
           /\ Len(text_chunks) = last.before + (k - 1)
           /\ \A n \in 1..(k - 1) :
                /\ text_chunks[last.before + n].pdf_id = last.pdf_id
                /\ text_chunks[last.before + n].chunk_index = n - 1
           /\ \A optional_markdown \in BOOLEAN : ~MainCounts(last.result, optional_markdown)

\* a batch whose second insert hit an ordinal the document already held, after its
\* first row was written
C7_Witness ==
    /\ last.op = "process_markdown_to_chunks"
    /\ last.result = "IntegrityError"
    /\ last.failed_at = Some(1)
    /\ \A n \in 1..Len(last.frame) : ~IsNull(last.frame[n].start_page)
    /\ Len(text_chunks) = last.before + 1
    /\ Len(last.frame) >= 2

----------------------------------------------------------------------------
(* Claims on main (SpecMain) *)

\* the document of the last loop pass has the bytes of a stored document
DuplicateAttempt ==
    /\ attempt.file.kind \in {"pdf", "not_pdf"}
    /\ \E n \in 1..attempt.pdfs_before : pdfs[n].md5_hash = calculate_md5(attempt.file.bytes)

C9_ExitCodeTellsSuccess ==
    pc = "exited" =>
        /\ success_count = args.pdf_files => exit_code = Some(0)
        /\ success_count < args.pdf_files => exit_code = Some(1)

\* C10: main ends only after it attempted every document of a valid command line,
\* whatever failed on an earlier one.
C10_EveryDocumentAttempted ==
    (pc = "exited" /\ ~(args.markdown /\ args.pdf_files > 1)) => pos = args.pdf_files

\* the last loop pass called process_files
ProcessFilesCalled == attempt.file.kind \in {"pdf", "not_pdf"}

\* C11: without --markdown, a document with neither a .md nor a .markdown companion
\* fails with FileNotFoundError and, unless --optional-markdown is given, is not
\* counted; a document with a companion never fails so, and the companion found (.md
\* before .markdown) is the path used and the text stored as the document's markdown.
C11_CompanionMarkdown ==
    (ProcessFilesCalled /\ ~args.markdown) =>
        LET f == attempt.file
            stored == pdfs[attempt.pdf_id].markdown_content
        IN /\ (IsNull(f.md) /\ IsNull(f.markdown)) =>
                /\ attempt.outcome = "FileNotFoundError"
                /\ ~args.optional_markdown => ~attempt.counted
           /\ ~IsNull(f.md) =>
                /\ attempt.outcome # "FileNotFoundError"
                /\ attempt.markdown_path = Some(".md")
                /\ attempt.pdf_id # 0 => stored = Some(Val(f.md))
           /\ (IsNull(f.md) /\ ~IsNull(f.markdown)) =>
                /\ attempt.outcome # "FileNotFoundError"
                /\ attempt.markdown_path = Some(".markdown")
                /\ attempt.pdf_id # 0 => stored = Some(Val(f.markdown))

\* the first document was ingested with its companion, the second has no
\* companion and is not counted
C11_Witness ==
    /\ ~args.markdown
    /\ ~args.optional_markdown
    /\ pos = 2
    /\ success_count = 1
    /\ Len(pdfs) = 1
    /\ pdfs[1].markdown_content = Some(DocOk)
    /\ ProcessFilesCalled
    /\ IsNull(attempt.file.md) /\ IsNull(attempt.file.markdown)
    /\ attempt.outcome = "FileNotFoundError"

\* C17: when process_files fails at the insert of the chunk with index k, the store
\* holds the document's record with its markdown content set, and the chunks of that
\* document are exactly those with the ordinals 0..k-1.
C17_PartialWriteKept ==
    (ProcessFilesCalled /\ attempt.outcome = "IntegrityError") =>
        LET k == Val(attempt.failed_at)
        IN /\ attempt.pdf_id \in 1..Len(pdfs)
           /\ ~IsNull(pdfs[attempt.pdf_id].markdown_content)
           /\ {text_chunks[n].chunk_index : n \in ChunksOf(text_chunks, attempt.pdf_id)}
                = 0..(k - 1)

\* C18: when process_files has returned or raised, none of the connections opened
\* during the call is still open.
C18_ConnectionsClosed ==
    ProcessFilesCalled =>
        \A c \in DOMAIN attempt.connections : attempt.connections[c] # "open"

\* the markdown file of the document f is missing: the --markdown path names no file,
\* or, without --markdown, f has no companion
MarkdownMissing(a, f) ==
    IF a.markdown THEN IsNull(a.markdown_file)
    ELSE IsNull(f.md) /\ IsNull(f.markdown)

\* C19: a loop pass whose process_files call finds the markdown file missing ends with
\* FileNotFoundError and leaves the tables and the database file as they were, opens
\* no connection and creates no document record; main counts the document exactly
\* when --optional-markdown is given.
C19_MissingMarkdownLeavesStore ==
    [][(/\ pos' = pos + 1
        /\ attempt'.file.kind \in {"pdf", "not_pdf"}
        /\ MarkdownMissing(args, attempt'.file)) =>
            /\ attempt'.outcome = "FileNotFoundError"
            /\ pdfs' = pdfs
            /\ text_chunks' = text_chunks
            /\ db_exists' = db_exists
            /\ attempt'.connections = NoConnections
            /\ attempt'.pdf_id = 0
            /\ attempt'.counted = args.optional_markdown
            /\ success_count' = success_count + (IF args.optional_markdown THEN 1 ELSE 0)]_vars

\* the --markdown path names no file, the database file does not exist, and the
\* document was counted as a success
C19_Witness ==
    /\ args.markdown
    /\ IsNull(args.markdown_file)
    /\ args.optional_markdown
    /\ ProcessFilesCalled
    /\ attempt.outcome = "FileNotFoundError"
    /\ attempt.counted
    /\ success_count = 1
    /\ ~db_exists
    /\ ~IsNull(attempt.file.md)

====
